---- MODULE Spec2Model ----
(***************************************************************************)
(* imgmv: rename the regular files of a source directory to                *)
(* {prefix}_{index}{.ext} and move or copy them into a destination         *)
(* directory (src/src/main.rs).                                            *)
(*                                                                         *)
(* A byte of a file name is a one-character string; a file name is a       *)
(* sequence of bytes; a path is a sequence of components (file names).     *)
(* The byte "xFF" stands for the byte 0xFF, which is no valid UTF-8, and   *)
(* "uFFFD" for U+FFFD REPLACEMENT CHARACTER.                               *)
(***************************************************************************)
EXTENDS Integers, Sequences, FiniteSets, TLC

(***************************************************************************)
(* Bounds of the model.                                                    *)
(***************************************************************************)
\* most regular files the source directory holds
MaxFiles == 3
\* most transfers of one run the environment makes fail (permission, space...)
MaxEnvFailures == 2
\* most source paths handed to the pair generator on its own
MaxLen == 2
\* files put before them, so that indices of two digits are generated
PadLen == 9

(***************************************************************************)
(* Bytes, names, paths.                                                    *)
(***************************************************************************)
Dot == "."
Underscore == "_"
InvalidByte == "xFF"
ReplacementChar == "uFFFD"
DigitChars == <<"0", "1", "2", "3", "4", "5", "6", "7", "8", "9">>

\* format!("{}", index) of a usize: its decimal digits, most significant first
RECURSIVE FormatIndex(_)
FormatIndex(n) ==
    IF n < Len(DigitChars)
    THEN <<DigitChars[n + 1]>>
    ELSE FormatIndex(n \div Len(DigitChars)) \o <<DigitChars[(n % Len(DigitChars)) + 1]>>

\* OsStr::to_string_lossy: every byte that is no valid UTF-8 becomes U+FFFD
to_string_lossy(s) ==
    [k \in 1..Len(s) |-> IF s[k] = InvalidByte THEN ReplacementChar ELSE s[k]]

\* position of the last "." of a name, 0 when it has none
LastDot(name) ==
    IF \E k \in 1..Len(name) : name[k] = Dot
    THEN CHOOSE k \in 1..Len(name) :
            /\ name[k] = Dot
            /\ \A m \in (k + 1)..Len(name) : name[m] # Dot
    ELSE 0

\* Path::extension has a value: the name is not "..", has a ".", and the text
\* before its last "." is not empty
HasExtension(name) ==
    /\ name # <<Dot, Dot>>
    /\ LastDot(name) > 1

\* Path::extension: the bytes after the last "."
Extension(name) == SubSeq(name, LastDot(name) + 1, Len(name))

\* source_file.extension().map_or(String::new(), |ext| format!(".{}", ext.to_string_lossy()))
ExtSuffix(name) ==
    IF HasExtension(name)
    THEN <<Dot>> \o to_string_lossy(Extension(name))
    ELSE <<>>

\* Path::file_name of a file path: its last component
FileName(path) == path[Len(path)]

\* PathBuf::join with a relative name
Join(dir, name) == Append(dir, name)

\* mutant: the indices start at 1
EnumIndexFromOne(k) == k

\* the index enumerate() gives the k-th element (k counts from 1 here)
EnumIndex(k) == k - 1

\* mutant: the index is left out of the name (every name carries 0)
DestNameNoIndex(prefix, index, source_file) ==
    prefix \o <<Underscore>> \o FormatIndex(0) \o ExtSuffix(FileName(source_file))

\* format!("{}_{}{}", prefix, index, ext)
DestName(prefix, index, source_file) ==
    prefix \o <<Underscore>> \o FormatIndex(index) \o ExtSuffix(FileName(source_file))

\* generate_source_destination_pairs
generate_source_destination_pairs(source_files, destination_path, prefix) ==
    [k \in 1..Len(source_files) |->
        <<source_files[k],
          Join(destination_path, DestName(prefix, EnumIndex(k), source_files[k]))>>]

(***************************************************************************)
(* The file system the run works on.  A path of `links` is a regular file  *)
(* and names its inode (two paths with one inode are hard links of one     *)
(* file); `data` is each inode's content; `dirs` are the directories;      *)
(* `untyped` are entries whose type cannot be read.                        *)
(***************************************************************************)
RootPath == << <<"/">> >>
SrcDirPath == << <<"/">>, <<"p">> >>
DstDirPath == << <<"/">>, <<"d">> >>
MissingPath == << <<"/">>, <<"n">> >>

\* the names the files of the source directory are drawn from
SrcNames == << <<"a", ".", "J">>,
               <<"p", "_", "0", ".", "J">>,
               <<"p", "_", "1", ".", "J">>,
               <<"R">> >>
\* the name of the entry that may exist in the destination directory beforehand
PreName == SrcNames[2]
UntypedName == <<"u">>
OldContent == <<"o">>
EmptyContent == <<>>
PreKinds == {"none", "file", "dir", "link", "untyped"}
\* the source file that entry is a hard link of, when it is a link
LinkTargetName == SrcNames[1]

\* the directory relative paths are resolved against
Cwd == RootPath
\* command lines: "p", "/" and "n" as the source; "d", "/p" and "n" as the destination
SourceArgs == {<< <<"p">> >>, RootPath, << <<"n">> >>}
DestArgs == {<< <<"d">> >>, SrcDirPath, << <<"n">> >>}
\* Option<String>: a sequence of no or one string
PrefixArgs == {<<>>, << <<"q">> >>}

Parent(path) == SubSeq(path, 1, Len(path) - 1)
Range(f) == {f[x] : x \in DOMAIN f}
Restrict(f, S) == [x \in S |-> f[x]]
Perms(S) ==
    {s \in [1..Cardinality(S) -> S] : \A a, b \in DOMAIN s : s[a] = s[b] => a = b}

VARIABLES
    args,              \* Args, as parsed
    pc,                \* where the run is
    fatal,             \* what ended the run with an error ("none": nothing)
    source_path,       \* move_images' parameters
    destination_path,
    prefix,
    source_files,      \* get_source_files' result
    pairs,             \* generate_source_destination_pairs' result
    i,                 \* the pair the loop is at (from 1)
    status,            \* per pair: Pending, Attempted, Succeeded, Failed
    attempts,          \* per pair: how many times op was called on it
    log,               \* the records emitted (debug!, warn!, error!, println!)
    links, data, dirs, untyped,   \* the file system
    links0, data0,     \* the file system before the run
    dstResolved,       \* args.destination.canonicalize() was called
    envFailures        \* transfers the environment made fail

vars == <<args, pc, fatal, source_path, destination_path, prefix, source_files,
          pairs, i, status, attempts, log, links, data, dirs, untyped, links0,
          data0, dstResolved, envFailures>>

fsVars == <<links, data, dirs, untyped, links0, data0>>

\* one emitted record: its level, what it says, and the pair it is about (0: none)
Rec(level, kind, pair, dry, name, src, dst) ==
    [level |-> level, kind |-> kind, pair |-> pair, dry |-> dry, name |-> name,
     src |-> src, dst |-> dst]

\* an environment-only record
Note(level, kind, what, path) == Rec(level, kind, 0, FALSE, what, path, <<>>)

(***************************************************************************)
(* The transfer operations: each gives the outcomes the call can have, an  *)
(* outcome being the io::Result and the file system left behind.  A call   *)
(* that fails is taken to leave the file system as it was.                 *)
(***************************************************************************)
Outcome(ok, l, d) == [ok |-> ok, links |-> l, data |-> d]

FreshIno(l) == CHOOSE k \in 1..(Cardinality(Range(l)) + 1) : k \notin Range(l)

\* |_, _| Ok(()): nothing is touched
DryRunOp(src, dst, l, d) == {Outcome(TRUE, l, d)}

\* mutant: the source is linked at the destination and not removed
RenameKeepsSource(src, dst, l, d) ==
    LET nl == [p \in DOMAIN l \cup {dst} |-> IF p = dst THEN l[src] ELSE l[p]]
    IN  Outcome(TRUE, nl, Restrict(d, Range(nl)))

\* what a rename(2) that succeeds leaves: nothing changes when both paths are
\* links of one file; otherwise dst names src's file and src is gone
RenameFile(src, dst, l, d) ==
    IF dst \in DOMAIN l /\ l[dst] = l[src]
    THEN Outcome(TRUE, l, d)
    ELSE LET nl == [p \in (DOMAIN l \cup {dst}) \ {src} |->
                        IF p = dst THEN l[src] ELSE l[p]]
         IN  Outcome(TRUE, nl, Restrict(d, Range(nl)))

\* what a copy that succeeds leaves: dst is opened with create and truncate,
\* then src's bytes are written into it; when both paths are links of one file
\* the truncation empties the source before it is read
CopyFile(src, dst, l, d) ==
    IF dst \in DOMAIN l
    THEN IF l[dst] = l[src]
         THEN Outcome(TRUE, l, [d EXCEPT ![l[dst]] = EmptyContent])
         ELSE Outcome(TRUE, l, [d EXCEPT ![l[dst]] = d[l[src]]])
    ELSE LET k == FreshIno(l)
             nl == [p \in DOMAIN l \cup {dst} |-> IF p = dst THEN k ELSE l[p]]
         IN  Outcome(TRUE, nl, [n \in DOMAIN d \cup {k} |-> IF n = k THEN d[l[src]] ELSE d[n]])

\* the call cannot succeed: the source is gone, or the destination is a directory
Blocked(src, dst, l, dr) == src \notin DOMAIN l \/ dst \in dr

\* fs::rename(source, destination)
RenameOp(src, dst, l, d, dr, envMayFail) ==
    IF Blocked(src, dst, l, dr)
    THEN {Outcome(FALSE, l, d)}
    ELSE {RenameFile(src, dst, l, d)}
         \cup (IF envMayFail THEN {Outcome(FALSE, l, d)} ELSE {})

\* fs::copy(source, destination).and(Ok(()))
CopyOp(src, dst, l, d, dr, envMayFail) ==
    IF Blocked(src, dst, l, dr)
    THEN {Outcome(FALSE, l, d)}
    ELSE {CopyFile(src, dst, l, d)}
         \cup (IF envMayFail THEN {Outcome(FALSE, l, d)} ELSE {})

\* mutant: the copy flag is looked at before dry_run
OpCopyFirst(dry_run, copy_file, src, dst, l, d, dr, envMayFail) ==
    IF copy_file THEN CopyOp(src, dst, l, d, dr, envMayFail)
    ELSE IF dry_run THEN DryRunOp(src, dst, l, d)
    ELSE RenameOp(src, dst, l, d, dr, envMayFail)

\* let op = if dry_run { .. } else if copy_file { .. } else { .. }
Op(dry_run, copy_file, src, dst, l, d, dr, envMayFail) ==
    IF dry_run THEN DryRunOp(src, dst, l, d)
    ELSE IF copy_file THEN CopyOp(src, dst, l, d, dr, envMayFail)
    ELSE RenameOp(src, dst, l, d, dr, envMayFail)

\* let name = if copy_file { "copy" } else { "move" }
OpName(copy_file) == IF copy_file THEN "copy" ELSE "move"

\* mutant: a success is never printed
SuccessLevelDebug(verbose) == "debug"

\* the level the record of a transfer that succeeded is emitted at
SuccessLevel(verbose) == IF verbose THEN "console" ELSE "debug"

\* mutant: a failure is logged at error level only when verbose is set
ReportQuietFailure(ok, verbose, dry_run, copy_file, k, src, dst) ==
    IF ok
    THEN Rec(SuccessLevel(verbose), "op_text", k, dry_run, OpName(copy_file), src, dst)
    ELSE Rec(IF verbose THEN "error" ELSE "debug", "failed", k, FALSE,
             OpName(copy_file), src, dst)

\* the match on op's result: the record it emits for pair k
Report(ok, verbose, dry_run, copy_file, k, src, dst) ==
    IF ok
    THEN Rec(SuccessLevel(verbose), "op_text", k, dry_run, OpName(copy_file), src, dst)
    ELSE Rec("error", "failed", k, FALSE, OpName(copy_file), src, dst)

\* if verbose { } else { debug!("{}", op_text) }: the records emitted before op
Announce(verbose, dry_run, copy_file, k, src, dst) ==
    IF verbose
    THEN <<>>
    ELSE <<Rec("debug", "op_text", k, dry_run, OpName(copy_file), src, dst)>>

\* the six debug! lines move_images starts with
ParamDump ==
    [k \in 1..6 |->
        Note("debug", "param",
             <<"Source path", "Destination path", "Copy file", "Prefix", "Verbose",
               "Dry run">>[k], <<>>)]

(***************************************************************************)
(* Path resolution and the prefix.                                         *)
(***************************************************************************)
IsAbsolute(path) == path[1] = <<"/">>
Absolute(path) == IF IsAbsolute(path) THEN path ELSE Cwd \o path
\* mutant: the path is made absolute without looking at the file system
CanResolveUnchecked(path) == TRUE

\* Path::canonicalize succeeds: the path names a directory that exists
CanResolve(path) == Absolute(path) \in dirs
canonicalize(path) == Absolute(path)

\* Path::file_name has a value: the path does not end in the root or ".."
HasFileName(path) == FileName(path) \notin {<<"/">>, <<Dot, Dot>>}

\* get_prefix has a value
HasPrefix(a) == a.prefix # <<>> \/ HasFileName(a.source)
\* get_prefix
get_prefix(a) ==
    IF a.prefix # <<>> THEN a.prefix[1] ELSE to_string_lossy(FileName(a.source))

\* the entries directly inside a directory
Entries(dir) ==
    {p \in DOMAIN links \cup dirs \cup untyped : Len(p) > 1 /\ Parent(p) = dir}

\* the filter_map of get_source_files: the regular files, in the order read
RegularFiles(order) == SelectSeq(order, LAMBDA e : e \in DOMAIN links /\ e \notin untyped)

\* what get_source_files logs for the entries it skips, in the order read
ListingLog(order) ==
    LET skipped == SelectSeq(order, LAMBDA e : e \notin DOMAIN links \/ e \in untyped)
    IN  [k \in 1..Len(skipped) |->
            IF skipped[k] \in untyped
            THEN Note("warn", "no_type", "Failed to get file type", skipped[k])
            ELSE Note("debug", "ignored", "Ignoring non-file entry", skipped[k])]

(***************************************************************************)
(* The states a run starts in: a command line and a file system.           *)
(***************************************************************************)
BaseDirs == {RootPath, SrcDirPath, DstDirPath}
FileSets == {F \in SUBSET (1..Len(SrcNames)) : Cardinality(F) <= MaxFiles}
SrcFile(k) == Join(SrcDirPath, SrcNames[k])
BaseLinks(F) == [p \in {SrcFile(k) : k \in F} |-> CHOOSE k \in F : SrcFile(k) = p]
BaseData(F) == [k \in F |-> SrcNames[k]]
OldIno == Len(SrcNames) + 1
Fs(l, d, dr, u) == [links |-> l, data |-> d, dirs |-> dr, untyped |-> u]

\* the directory the entry that exists beforehand is in: the destination
PreDir(dst) == IF Absolute(dst) \in BaseDirs THEN Absolute(dst) ELSE DstDirPath

\* the file systems with the files F in the source directory and, at the
\* destination, an entry of kind pre named PreName
FsChoices(F, pre, dst) ==
    LET pp == Join(PreDir(dst), PreName)
        bl == BaseLinks(F)
        bd == BaseData(F)
    IN  CASE pre = "none" -> {Fs(bl, bd, BaseDirs, {})}
          [] pre = "file" ->
                IF pp \in DOMAIN bl THEN {}
                ELSE {Fs([p \in DOMAIN bl \cup {pp} |-> IF p = pp THEN OldIno ELSE bl[p]],
                         [n \in DOMAIN bd \cup {OldIno} |-> IF n = OldIno THEN OldContent ELSE bd[n]],
                         BaseDirs, {})}
          [] pre = "dir" ->
                IF pp \in DOMAIN bl THEN {} ELSE {Fs(bl, bd, BaseDirs \cup {pp}, {})}
          [] pre = "link" ->
                {Fs(nl, Restrict(bd, Range(nl)), BaseDirs, {}) :
                    nl \in {[p \in DOMAIN bl \cup {pp} |-> IF p = pp THEN k ELSE bl[p]] :
                               k \in {m \in F : SrcNames[m] = LinkTargetName}}}
          [] pre = "untyped" ->
                {Fs(bl, bd, BaseDirs, {Join(SrcDirPath, UntypedName)})}

FilesIn(l, dir) == {p \in DOMAIN l : Parent(p) = dir}

Init ==
    \E src \in SourceArgs, dst \in DestArgs, pfx \in PrefixArgs,
       copy \in BOOLEAN, verbose \in BOOLEAN, dry \in BOOLEAN,
       F \in FileSets, pre \in PreKinds :
        \E fs \in FsChoices(F, pre, dst) :
            /\ Cardinality(FilesIn(fs.links, SrcDirPath)) <= MaxFiles
            /\ args = [source |-> src, destination |-> dst, copy |-> copy,
                       prefix |-> pfx, verbose |-> verbose, dry_run |-> dry]
            /\ links = fs.links
            /\ data = fs.data
            /\ dirs = fs.dirs
            /\ untyped = fs.untyped
            /\ links0 = fs.links
            /\ data0 = fs.data
            /\ pc = "start"
            /\ fatal = "none"
            /\ source_path = <<>>
            /\ destination_path = <<>>
            /\ prefix = <<>>
            /\ source_files = <<>>
            /\ pairs = <<>>
            /\ i = 1
            /\ status = <<>>
            /\ attempts = <<>>
            /\ log = <<>>
            /\ dstResolved = FALSE
            /\ envFailures = 0

(***************************************************************************)
(* main                                                                    *)
(***************************************************************************)
Fatal(why) ==
    /\ pc' = "fatal"
    /\ fatal' = why

\* args.source.canonicalize().map_err(..)?
ResolveSource ==
    /\ pc = "start"
    /\ IF CanResolve(args.source)
       THEN /\ source_path' = canonicalize(args.source)
            /\ pc' = "resolve_destination"
            /\ UNCHANGED fatal
       ELSE /\ Fatal("source")
            /\ UNCHANGED source_path
    /\ UNCHANGED <<args, destination_path, prefix, source_files, pairs, i, status,
                   attempts, log, dstResolved, envFailures>>
    /\ UNCHANGED fsVars

\* args.destination.canonicalize().map_err(..)?
ResolveDestination ==
    /\ pc = "resolve_destination"
    /\ dstResolved' = TRUE
    /\ IF CanResolve(args.destination)
       THEN /\ destination_path' = canonicalize(args.destination)
            /\ pc' = "get_prefix"
            /\ UNCHANGED fatal
       ELSE /\ Fatal("destination")
            /\ UNCHANGED destination_path
    /\ UNCHANGED <<args, source_path, prefix, source_files, pairs, i, status,
                   attempts, log, envFailures>>
    /\ UNCHANGED fsVars

\* &get_prefix(&args)?
GetPrefix ==
    /\ pc = "get_prefix"
    /\ IF HasPrefix(args)
       THEN /\ prefix' = get_prefix(args)
            /\ pc' = "move_images"
            /\ UNCHANGED fatal
       ELSE /\ Fatal("prefix")
            /\ UNCHANGED prefix
    /\ UNCHANGED <<args, source_path, destination_path, source_files, pairs, i,
                   status, attempts, log, dstResolved, envFailures>>
    /\ UNCHANGED fsVars

(***************************************************************************)
(* move_images                                                             *)
(***************************************************************************)
\* the parameter dump, get_source_files(source_path)? and the pairs the loop
\* runs over; the directory is read in any order
ListFiles ==
    /\ pc = "move_images"
    /\ \E order \in Perms(Entries(source_path)) :
        /\ source_files' = RegularFiles(order)
        /\ pairs' = generate_source_destination_pairs(RegularFiles(order),
                                                      destination_path, prefix)
        /\ status' = [k \in 1..Len(RegularFiles(order)) |-> "Pending"]
        /\ attempts' = [k \in 1..Len(RegularFiles(order)) |-> 0]
        /\ log' = log \o ParamDump \o ListingLog(order)
    /\ pc' = "loop"
    /\ UNCHANGED <<args, fatal, source_path, destination_path, prefix, i,
                   dstResolved, envFailures>>
    /\ UNCHANGED fsVars

\* fs::read_dir(source_path)? fails: the directory cannot be opened
ListFails ==
    /\ pc = "move_images"
    /\ log' = log \o ParamDump
    /\ Fatal("listing")
    /\ UNCHANGED <<args, source_path, destination_path, prefix, source_files, pairs,
                   i, status, attempts, dstResolved, envFailures>>
    /\ UNCHANGED fsVars

\* the loop takes the next pair, formats op_text and logs it unless verbose
BeginPair ==
    /\ pc = "loop"
    /\ i <= Len(pairs)
    /\ status' = [status EXCEPT ![i] = "Attempted"]
    /\ log' = log \o Announce(args.verbose, args.dry_run, args.copy, i,
                              pairs[i][1], pairs[i][2])
    /\ pc' = "op"
    /\ UNCHANGED <<args, fatal, source_path, destination_path, prefix, source_files,
                   pairs, i, attempts, dstResolved, envFailures>>
    /\ UNCHANGED fsVars

\* mutant: the loop stays at the pair
NextPairSame(k) == k

\* the for loop goes on to the next pair, whatever op returned
NextPair(k) == k + 1

\* match op(&source_file, &destination_file) { .. }
Transfer ==
    /\ pc = "op"
    /\ \E out \in Op(args.dry_run, args.copy, pairs[i][1], pairs[i][2], links, data,
                     dirs, envFailures < MaxEnvFailures) :
        /\ links' = out.links
        /\ data' = out.data
        /\ status' = [status EXCEPT ![i] = IF out.ok THEN "Succeeded" ELSE "Failed"]
        /\ log' = Append(log, Report(out.ok, args.verbose, args.dry_run, args.copy, i,
                                     pairs[i][1], pairs[i][2]))
        /\ envFailures' = IF out.ok \/ Blocked(pairs[i][1], pairs[i][2], links, dirs)
                          THEN envFailures
                          ELSE envFailures + 1
    /\ attempts' = [attempts EXCEPT ![i] = @ + 1]
    /\ i' = NextPair(i)
    /\ pc' = "loop"
    /\ UNCHANGED <<args, fatal, source_path, destination_path, prefix, source_files,
                   pairs, dstResolved, dirs, untyped, links0, data0>>

\* the loop is over: Ok(()) from move_images and from main
Finish ==
    /\ pc = "loop"
    /\ i > Len(pairs)
    /\ pc' = "done"
    /\ UNCHANGED <<args, fatal, source_path, destination_path, prefix, source_files,
                   pairs, i, status, attempts, log, dstResolved, envFailures>>
    /\ UNCHANGED fsVars

Next ==
    \/ ResolveSource
    \/ ResolveDestination
    \/ GetPrefix
    \/ ListFiles
    \/ ListFails
    \/ BeginPair
    \/ Transfer
    \/ Finish

Spec == Init /\ [][Next]_vars

\* the run is one sequential thread: a step that can be taken is taken
FairSpec == Spec /\ WF_vars(Next)

(***************************************************************************)
(* generate_source_destination_pairs on its own, over file names with and  *)
(* without extension, with several dots, a leading dot, a trailing dot and *)
(* a byte that is no UTF-8, and over lists long enough for two digits.     *)
(***************************************************************************)
PairNames == { <<"a", ".", "J">>, <<"R">>, <<".", "h">>, <<"b", ".">>,
               <<"a", ".", "t", ".", "g">>, <<"c", ".", InvalidByte>> }
PairPrefixes == { <<"p">>, <<"x", "_", "1">> }
PadFile == Join(SrcDirPath, <<"a", ".", "J">>)
PairInputs ==
    {[k \in 1..pad |-> PadFile] \o t :
        pad \in {0, PadLen},
        t \in UNION {[1..n -> {Join(SrcDirPath, nm) : nm \in PairNames}] : n \in 0..MaxLen}}

PairInit ==
    \E files \in PairInputs, dst \in {DstDirPath, SrcDirPath}, pfx \in PairPrefixes :
        /\ source_files = files
        /\ destination_path = dst
        /\ prefix = pfx
        /\ source_path = SrcDirPath
        /\ pc = "pairs"
        /\ pairs = <<>>
        /\ args = [source |-> SrcDirPath, destination |-> dst, copy |-> FALSE,
                   prefix |-> <<pfx>>, verbose |-> FALSE, dry_run |-> FALSE]
        /\ fatal = "none"
        /\ i = 1
        /\ status = <<>>
        /\ attempts = <<>>
        /\ log = <<>>
        /\ links = <<>>
        /\ data = <<>>
        /\ dirs = BaseDirs
        /\ untyped = {}
        /\ links0 = <<>>
        /\ data0 = <<>>
        /\ dstResolved = FALSE
        /\ envFailures = 0

GeneratePairs ==
    /\ pc = "pairs"
    /\ pairs' = generate_source_destination_pairs(source_files, destination_path, prefix)
    /\ pc' = "pairs_done"
    /\ UNCHANGED <<args, fatal, source_path, destination_path, prefix, source_files,
                   i, status, attempts, log, dstResolved, envFailures>>
    /\ UNCHANGED fsVars

PairNext == GeneratePairs

PairSpec == PairInit /\ [][PairNext]_vars

(***************************************************************************)
(* What the properties below speak of.                                     *)
(***************************************************************************)
Terminal(k) == status[k] \in {"Succeeded", "Failed"}
Pairs == 1..Len(pairs)
FailedPairs == {k \in DOMAIN status : status[k] = "Failed"}
RecordsOf(k) == {n \in 1..Len(log) : log[n].pair = k}
ErrorRecords == {n \in 1..Len(log) : log[n].level = "error"}
Last(S) == CHOOSE n \in S : \A m \in S : m <= n
\* the last record about pair k says that its transfer succeeded
ReportedSucceeded(k) ==
    /\ RecordsOf(k) # {}
    /\ log[Last(RecordsOf(k))].kind = "op_text"
    /\ \A n \in RecordsOf(k) : log[n].level # "error"
\* the content the file at path p held before the run
Content0(p) == data0[links0[p]]
Content(p) == data[links[p]]

IsDigit(c) == c \in Range(DigitChars)
DigitValue(c) == (CHOOSE k \in 1..Len(DigitChars) : DigitChars[k] = c) - 1
RECURSIVE ParseNat(_)
ParseNat(s) ==
    IF s = <<>> THEN 0
    ELSE ParseNat(SubSeq(s, 1, Len(s) - 1)) * Len(DigitChars) + DigitValue(s[Len(s)])
StartsWith(s, t) == Len(s) >= Len(t) /\ SubSeq(s, 1, Len(t)) = t
\* the number a destination name carries after prefix and "_" (-1: none)
IndexCarried(name, pfx) ==
    LET from == Len(pfx) + 2
        run == {e \in from..Len(name) : \A m \in from..e : IsDigit(name[m])}
    IN  IF StartsWith(name, pfx \o <<Underscore>>) /\ run # {}
        THEN ParseNat(SubSeq(name, from, Last(run)))
        ELSE -1

(***************************************************************************)
(* C1  Each pair is attempted exactly once and in listing order, going     *)
(* Pending -> Attempted -> Succeeded or Failed; no pair is retried, a      *)
(* failed pair does not stop the later ones, and a run that listed its     *)
(* files ends with every pair Succeeded or Failed.                         *)
(***************************************************************************)
C1_PairStep ==
    \A k \in DOMAIN status \cap DOMAIN status' :
        /\ status[k] = "Pending" => status'[k] \in {"Pending", "Attempted"}
        /\ status[k] = "Attempted" => status'[k] \in {"Attempted", "Succeeded", "Failed"}
        /\ Terminal(k) => status'[k] = status[k] /\ attempts'[k] = attempts[k]
        /\ attempts'[k] <= 1
        /\ (status[k] = "Pending" /\ status'[k] = "Attempted") =>
                /\ \A j \in 1..(k - 1) : Terminal(j)
                /\ \A j \in (k + 1)..Len(status) : status[j] = "Pending"
        /\ (status[k] = "Attempted" /\ status'[k] # "Attempted") => attempts'[k] = 1
        /\ pairs' = pairs

C1_AllDone ==
    /\ pc = "done"
    /\ Len(status) = Len(source_files)
    /\ \A k \in DOMAIN status : Terminal(k) /\ attempts[k] = 1

C1_EachPairOnce == [][C1_PairStep]_vars /\ ((pc = "loop") ~> C1_AllDone)

C1_Witness ==
    /\ C1_AllDone
    /\ Len(status) = 3
    /\ status[1] = "Failed"
    /\ status[2] = "Succeeded"
    /\ status[3] = "Failed"

(***************************************************************************)
(* C2  When the run is over and k transfers failed, exactly k records are  *)
(* at error level, one per failed pair and naming its source and its       *)
(* destination; every other pair is reported as succeeded, and the run     *)
(* returned Ok.                                                            *)
(***************************************************************************)
C2_FailureIsolation ==
    /\ FailedPairs # {} => pc # "fatal" /\ fatal = "none"
    /\ pc = "done" =>
        /\ fatal = "none"
        /\ Cardinality(ErrorRecords) = Cardinality(FailedPairs)
        /\ \A k \in FailedPairs :
              \E n \in ErrorRecords :
                  /\ log[n].pair = k
                  /\ log[n].kind = "failed"
                  /\ log[n].src = pairs[k][1]
                  /\ log[n].dst = pairs[k][2]
        /\ \A k \in DOMAIN status \ FailedPairs :
              status[k] = "Succeeded" /\ ReportedSucceeded(k)

C2_Witness ==
    /\ pc = "done"
    /\ Len(status) = 3
    /\ status[1] = "Succeeded"
    /\ status[2] = "Failed"
    /\ status[3] = "Succeeded"
    /\ Cardinality(ErrorRecords) = 1

(***************************************************************************)
(* C3  With dry_run set the file system is never changed, whatever the     *)
(* copy flag, the number of files and the collisions of names, and every   *)
(* pair is reported as succeeded.                                          *)
(***************************************************************************)
C3_DryRunFrame ==
    args.dry_run =>
        /\ links = links0
        /\ data = data0
        /\ \A k \in DOMAIN status : status[k] # "Failed"
        /\ pc = "done" =>
              \A k \in DOMAIN status :
                  /\ status[k] = "Succeeded"
                  /\ ReportedSucceeded(k)
                  /\ log[Last(RecordsOf(k))].dry

C3_Witness ==
    /\ args.dry_run
    /\ args.copy
    /\ pc = "done"
    /\ Len(pairs) >= 2
    /\ destination_path = source_path
    /\ \E k \in Pairs : pairs[k][2] \in DOMAIN links0 /\ pairs[k][2] # pairs[k][1]

(***************************************************************************)
(* C4  As claimed: every Move that succeeds leaves the source path gone    *)
(* and the destination holding the content the source had; every Copy that *)
(* succeeds leaves both paths existing with identical content.             *)
(***************************************************************************)
MoveSucceeds == pc = "op" /\ ~args.dry_run /\ ~args.copy /\ status'[i] = "Succeeded"
CopySucceeds == pc = "op" /\ ~args.dry_run /\ args.copy /\ status'[i] = "Succeeded"

MovePost(src, dst) ==
    /\ src \notin DOMAIN links'
    /\ dst \in DOMAIN links'
    /\ data'[links'[dst]] = data[links[src]]

CopyPost(src, dst) ==
    /\ src \in DOMAIN links'
    /\ dst \in DOMAIN links'
    /\ data'[links'[src]] = data'[links'[dst]]

C4_Original_Step ==
    /\ MoveSucceeds => MovePost(pairs[i][1], pairs[i][2])
    /\ CopySucceeds => CopyPost(pairs[i][1], pairs[i][2])

C4_Original == [][C4_Original_Step]_vars

\* the destination path already names the source's file: the same path, or a
\* hard link of the file
SameFile(src, dst) == dst \in DOMAIN links /\ src \in DOMAIN links /\ links[dst] = links[src]

(***************************************************************************)
(* C4, amended  A Move that succeeds leaves the source path gone and the   *)
(* destination holding the content the source had, unless the destination  *)
(* path already named the source's file (the same path or a hard link of   *)
(* it): then nothing changes and the source path still exists.  A Copy     *)
(* that succeeds leaves both paths existing with identical content.        *)
(***************************************************************************)
C4_Amended_Step ==
    /\ (MoveSucceeds /\ ~SameFile(pairs[i][1], pairs[i][2])) =>
            MovePost(pairs[i][1], pairs[i][2])
    /\ (MoveSucceeds /\ SameFile(pairs[i][1], pairs[i][2])) =>
            /\ links' = links
            /\ data' = data
            /\ pairs[i][1] \in DOMAIN links'
    /\ CopySucceeds => CopyPost(pairs[i][1], pairs[i][2])

C4_MoveCopyPost == [][C4_Amended_Step]_vars

\* a Move into the source directory itself has succeeded, onto a path that
\* named another listed file
C4_Witness ==
    /\ ~args.dry_run
    /\ ~args.copy
    /\ destination_path = source_path
    /\ pc = "loop"
    /\ i = 2
    /\ Len(pairs) >= 2
    /\ status[1] = "Succeeded"
    /\ pairs[1][2] = pairs[2][1]
    /\ pairs[1][1] \notin DOMAIN links

(***************************************************************************)
(* C7  A run that ends with a fatal error has transferred nothing: no      *)
(* pair was attempted and the file system is as it was; and when the       *)
(* source path could not be resolved, the destination was not resolved.    *)
(***************************************************************************)
C7_FatalBeforeFiles ==
    /\ fatal # "none" =>
        /\ pc = "fatal"
        /\ fatal \in {"source", "destination", "prefix", "listing"}
        /\ \A k \in DOMAIN attempts : attempts[k] = 0 /\ status[k] = "Pending"
        /\ \A n \in 1..Len(log) : log[n].pair = 0
        /\ links = links0
        /\ data = data0
        /\ fatal = "source" => ~dstResolved
    /\ (Absolute(args.source) \notin dirs /\ pc # "start") =>
        /\ pc = "fatal"
        /\ fatal = "source"
        /\ ~dstResolved
    /\ (Absolute(args.destination) \notin dirs
            /\ pc \notin {"start", "resolve_destination"}) =>
        /\ pc = "fatal"
        /\ fatal \in {"source", "destination"}
    /\ (args.prefix = <<>> /\ FileName(args.source) = <<"/">>
            /\ pc \notin {"start", "resolve_destination", "get_prefix"}) =>
        /\ pc = "fatal"
        /\ fatal \in {"source", "destination", "prefix"}

C7_Witness ==
    /\ pc = "fatal"
    /\ fatal = "source"
    /\ Absolute(args.destination) \in dirs
    /\ FilesIn(links, SrcDirPath) # {}

(***************************************************************************)
(* C8  A transfer that failed has a record at error level, verbose or not; *)
(* one that succeeded has its record on the console when verbose is set,   *)
(* and has records at debug level only when it is not.                     *)
(***************************************************************************)
C8_ReportLevels ==
    \A k \in DOMAIN status :
        /\ status[k] = "Failed" =>
              \E n \in RecordsOf(k) : log[n].level = "error" /\ log[n].kind = "failed"
        /\ (status[k] = "Succeeded" /\ args.verbose) =>
              \E n \in RecordsOf(k) : log[n].level = "console" /\ log[n].kind = "op_text"
        /\ (status[k] = "Succeeded" /\ ~args.verbose) =>
              /\ RecordsOf(k) # {}
              /\ \A n \in RecordsOf(k) : log[n].level = "debug" /\ log[n].kind = "op_text"

C8_Witness ==
    /\ pc = "done"
    /\ args.verbose
    /\ \E k \in DOMAIN status : status[k] = "Failed"
    /\ \E k \in DOMAIN status : status[k] = "Succeeded"

(***************************************************************************)
(* C9  As claimed: once a pair's transfer is over, exactly one record      *)
(* about that pair has been emitted, in every mode and verbose or not.     *)
(***************************************************************************)
C9_OneRecordPerPair ==
    \A k \in DOMAIN status : Terminal(k) => Cardinality(RecordsOf(k)) = 1

(***************************************************************************)
(* C10  As claimed: after a Move or Copy run in which every pair           *)
(* succeeded, each listed file's original content is at its own            *)
(* destination path.                                                       *)
(***************************************************************************)
AllSucceeded ==
    /\ pc = "done"
    /\ ~args.dry_run
    /\ \A k \in DOMAIN status : status[k] = "Succeeded"

ContentDelivered ==
    \A k \in Pairs :
        /\ pairs[k][2] \in DOMAIN links
        /\ Content(pairs[k][2]) = Content0(pairs[k][1])

C10_Original == AllSucceeded => ContentDelivered

\* before the run, a destination path that exists names a file of its own:
\* no listed source file, and no file another destination path names
DestinationsApart ==
    \A k \in Pairs :
        pairs[k][2] \in DOMAIN links0 =>
            /\ \A j \in Pairs : links0[pairs[j][1]] # links0[pairs[k][2]]
            /\ \A j \in Pairs \ {k} :
                    pairs[j][2] \in DOMAIN links0 => links0[pairs[j][2]] # links0[pairs[k][2]]

(***************************************************************************)
(* C10, amended  After a Move or Copy run in which every pair succeeded,   *)
(* each listed file's original content is at its own destination path,     *)
(* provided that before the run no computed destination path named a       *)
(* listed source file (as the same path or as a hard link of it) or a      *)
(* file that another computed destination path named too.                  *)
(***************************************************************************)
C10_NoContentLost == (AllSucceeded /\ DestinationsApart) => ContentDelivered

\* three files renamed inside the source directory itself, by copy
C10_Witness ==
    /\ AllSucceeded
    /\ DestinationsApart
    /\ args.copy
    /\ Len(pairs) = 3
    /\ destination_path = source_path

(***************************************************************************)
(* C5  The pair generator returns one pair per source path, in order: the  *)
(* k-th pair's source is the k-th path, its destination is in the          *)
(* destination directory and carries the index k - 1, and no two           *)
(* destinations of a batch are the same path.                              *)
(***************************************************************************)
C5_PairsIndexed ==
    pc = "pairs_done" =>
        /\ Len(pairs) = Len(source_files)
        /\ \A k \in Pairs :
              /\ pairs[k][1] = source_files[k]
              /\ Parent(pairs[k][2]) = destination_path
              /\ IndexCarried(FileName(pairs[k][2]), prefix) = k - 1
        /\ \A j, k \in Pairs : j # k => pairs[j][2] # pairs[k][2]

C5_Witness ==
    /\ pc = "pairs_done"
    /\ Len(pairs) > Len(DigitChars)
    /\ \E j, k \in Pairs : j # k /\ pairs[j][1] = pairs[k][1]

(***************************************************************************)
(* C6  As claimed: the destination name is prefix, "_", the index, then    *)
(* "." and the source's extension copied verbatim when the source has an   *)
(* extension, and nothing when it has none; a source without extension     *)
(* gives no name ending in ".".                                            *)
(***************************************************************************)
ClaimedName(pfx, index, name) ==
    pfx \o <<Underscore>> \o FormatIndex(index)
        \o (IF HasExtension(name) THEN <<Dot>> \o Extension(name) ELSE <<>>)

C6_NameRule ==
    pc = "pairs_done" =>
        \A k \in Pairs :
            LET name == FileName(pairs[k][1])
                dest == FileName(pairs[k][2])
            IN  /\ dest = ClaimedName(prefix, k - 1, name)
                /\ ~HasExtension(name) => dest[Len(dest)] # Dot

====
